---- MODULE Spec2Model ----
(***************************************************************************)
(* Route-filtering policy of the Jira MCP server: jira_mcp/server.py       *)
(* builds an ordered list of RouteMap rules from a YAML route              *)
(* configuration, and the host framework classifies every operation of     *)
(* the OpenAPI document by the first rule that matches it.                 *)
(***************************************************************************)
EXTENDS Integers, Sequences, FiniteSets, TLC

\* Longest `routes` list the enumerated configuration files hold.
\* run() is called at most this often on one server.
MaxRuns == 2

\* The three credential arguments hold at most this many characters together.
MaxChars == 5

MaxRoutes == 2

-----------------------------------------------------------------------------
(* Python values, as yaml.safe_load produces them.  A str is its sequence  *)
(* of characters (a regex character class such as [^/] is kept as one      *)
(* element); dict keys and setting values are TLA+ strings.                *)

PyNone == [t |-> "None"]
PyStr(s) == [t |-> "str", v |-> s]
PyInt(n) == [t |-> "int", v |-> n]
PyList(s) == [t |-> "list", v |-> s]
PyDict(f) == [t |-> "dict", v |-> f]
EmptyDict == PyDict(<<>>)

\* len(x): defined for str, list and dict; TypeError otherwise.
HasLen(x) == x.t \in {"str", "list", "dict"}
PyLen(x) == IF x.t = "dict" THEN Cardinality(DOMAIN x.v) ELSE Len(x.v)

\* bool(x), as `not file_routes` evaluates it.
Truthy(x) ==
    CASE x.t = "None" -> FALSE
      [] x.t = "int" -> x.v # 0
      [] x.t = "dict" -> DOMAIN x.v # {}
      [] OTHER -> Len(x.v) > 0

\* `for pattern in x`: the elements of a list, the characters of a str.
Iterable(x) == x.t \in {"str", "list"}
Items(x) == IF x.t = "str" THEN [i \in 1..Len(x.v) |-> PyStr(<<x.v[i]>>)] ELSE x.v

-----------------------------------------------------------------------------
(* Route patterns and request paths of the Jira REST API.                  *)

RestApi == <<"/", "r", "e", "s", "t", "/", "a", "p", "i">>
RestApi3 == RestApi \o <<"/", "3">>
Issue == <<"/", "i", "s", "s", "u", "e">>
Search == <<"/", "s", "e", "a", "r", "c", "h">>
Project == <<"/", "p", "r", "o", "j", "e", "c", "t">>

\* ^/rest/api/3/issue/[^/]+$
IssuePattern == <<"^">> \o RestApi3 \o Issue \o <<"/", "[^/]", "+", "$">>
\* ^/rest/api/3/search$
SearchPattern == <<"^">> \o RestApi3 \o Search \o <<"$">>
\* ^/rest/api/3/project.*
ProjectPattern == <<"^">> \o RestApi3 \o Project \o <<".", "*">>
\* ^/rest/api/.*  -- the "all operations" pattern of server.py line 153
AllOperationsPattern == <<"^">> \o RestApi \o <<"/", ".", "*">>
\* .*  -- RouteMap's catch-all pattern
AnyPath == <<".", "*">>

\* */rest/api/3/search  -- a shell glob written where a regular expression
\* is expected: the leading * has nothing to repeat
GlobPattern == <<"*">> \o RestApi3 \o Search

PatternPool == {IssuePattern, SearchPattern, ProjectPattern, AllOperationsPattern}

IssueABC1 == RestApi3 \o Issue \o <<"/", "A", "B", "C", "-", "1">>
IssueABC123 == RestApi3 \o Issue \o <<"/", "A", "B", "C", "-", "1", "2", "3">>
IssueComment == IssueABC123 \o <<"/", "c", "o", "m", "m", "e", "n", "t">>
SearchPath == RestApi3 \o Search
ProjectPath == RestApi3 \o Project \o <<"/", "1", "0">>
AdminPath == RestApi3 \o <<"/", "a", "d", "m", "i", "n", "/", "s", "e", "t", "t", "i", "n", "g", "s">>

Paths == {IssueABC1, IssueABC123, IssueComment, SearchPath, ProjectPath, AdminPath}
DestructiveMethods == {"POST", "PUT", "PATCH", "DELETE"}
Methods == DestructiveMethods \cup {"GET", "HEAD", "OPTIONS", "TRACE"}

-----------------------------------------------------------------------------
(* Regular-expression matching over the subset the route files use:        *)
(* literal characters, `.`, `[^/]`, the postfix `*` and `+`, `^` and `$`.  *)

AtomMatches(a, c) ==
    IF a = "." THEN c # "\n"
    ELSE IF a = "[^/]" THEN c # "/"
    ELSE a = c

RECURSIVE MatchHere(_, _, _, _)
\* Does re[i..] match exactly s[j..]?
MatchHere(re, i, s, j) ==
    IF i > Len(re) THEN j > Len(s)
    ELSE LET a == re[i]
             q == IF i < Len(re) THEN re[i + 1] ELSE ""
             \* the atom taken zero or more times from position from
             star(from) ==
                 \E k \in from..(Len(s) + 1) :
                     /\ \A m \in from..(k - 1) : AtomMatches(a, s[m])
                     /\ MatchHere(re, i + 2, s, k)
         IN  IF a = "^" THEN j = 1 /\ MatchHere(re, i + 1, s, j)
             ELSE IF a = "$" THEN j = Len(s) + 1 /\ MatchHere(re, i + 1, s, j)
             ELSE IF q = "*" THEN star(j)
             ELSE IF q = "+" THEN j <= Len(s) /\ AtomMatches(a, s[j]) /\ star(j + 1)
             ELSE j <= Len(s) /\ AtomMatches(a, s[j]) /\ MatchHere(re, i + 1, s, j + 1)

\* re.compile(pattern) succeeds: the pattern is a str and each quantifier has
\* something to repeat (the patterns enumerated hold no doubled quantifier).
Compiles(pattern) ==
    /\ pattern.t = "str"
    /\ \A i \in 1..Len(pattern.v) :
           pattern.v[i] \in {"*", "+"} => i > 1 /\ pattern.v[i - 1] \notin {"^", "$"}

\* The path fully matches the pattern.
FullMatch(pattern, path) == MatchHere(pattern, 1, path, 1)

-----------------------------------------------------------------------------
(* The route configuration files and settings the server is started with.  *)

RECURSIVE SeqsUpTo(_, _)
\* All sequences over S of length at most n.
SeqsUpTo(S, n) ==
    IF n = 0 THEN {<<>>}
    ELSE LET shorter == SeqsUpTo(S, n - 1)
         IN  shorter \cup {Append(s, e) : s \in {t \in shorter : Len(t) = n - 1}, e \in S}

\* Values of a `routes` key: a list of patterns (possibly empty), or a
\* scalar put there by mistake (null, a number, a bare string).
RoutesValues ==
    {PyList(s) : s \in SeqsUpTo({PyStr(p) : p \in PatternPool}, MaxRoutes)}
        \cup {PyNone, PyInt(5), PyStr(<<"s", "e", "a", "r", "c", "h">>)}

\* One entry of the `configurations` section.
Entries == {PyDict("routes" :> rv) : rv \in RoutesValues} \cup {EmptyDict, PyNone}

FullAccess == PyDict("routes" :> PyList(<<PyStr(AllOperationsPattern)>>))

\* What yaml.safe_load returns for the file.
Documents ==
    {PyNone, PyDict("configurations" :> PyNone)}
        \cup {PyDict("routes" :> rv) : rv \in RoutesValues}
        \cup {PyDict("configurations" :> PyDict("read-only-plus" :> e)) : e \in Entries}
        \cup {PyDict("configurations" :>
                  PyDict("read-only-plus" :> e @@ "full-access" :> FullAccess)) :
              e \in Entries}

RouteConfigFiles ==
    {[kind |-> "missing"], [kind |-> "invalid_yaml"]}
        \cup {[kind |-> "yaml", data |-> d] : d \in Documents}

\* Values of a `routes` key written with mistakes in it: entries that are no
\* regular expression (a glob, a number) among valid ones, or a bare string.
MalformedRoutesValues ==
    {PyList(s) : s \in SeqsUpTo({PyStr(SearchPattern), PyStr(IssuePattern),
                                 PyStr(GlobPattern), PyInt(5)}, MaxRoutes)}
        \cup {PyStr(<<"s", "e", "a", "r", "c", "h">>)}

MalformedDocuments ==
    {PyDict("routes" :> rv) : rv \in MalformedRoutesValues}
        \cup {PyDict("configurations" :> PyDict("read-only-plus" :> PyDict("routes" :> rv))) :
              rv \in MalformedRoutesValues}

MalformedRouteConfigFiles == {[kind |-> "yaml", data |-> d] : d \in MalformedDocuments}

RouteConfigPaths == {"", "./route-configs.yaml"}
RouteConfigNames == {"", "read-only-plus", "full-access", "does-not-exist"}
OpenapiSpecFiles == {"ok", "missing", "invalid_json"}
\* config.jira.openapi_spec_path: unset, or a custom file.
OpenapiSpecPaths == {"", "/custom/path/spec.json"}

VARIABLES
    config,             \* self.config: the settings the server was built with
    route_config_file,  \* the file at config.mcp.route_config_path
    openapi_spec_file,  \* the OpenAPI specification file at spec_path
    pc,                 \* position inside initialize()
    route_maps,         \* initialize()'s local route_maps
    raised,             \* the exception that left initialize(), if any
    log,                \* records handed to the "jira_mcp" logger, in order
    mcp_server,         \* self.mcp_server
    env,                \* os.environ as main() finds it
    argv,               \* the parsed command line of main()
    main_pc,            \* position inside main()
    stderr,             \* what main() has written to sys.stderr
    handlers,           \* the streams of the "jira_mcp" logger's handlers
    started,            \* the calls of self.mcp_server.run(...), in order
    run_raised,         \* the exception that left the last run(), if any
    calls,              \* how often _get_route_filters, run() and a further initialize() were entered
    kwargs,             \* the arguments JiraConfig / JiraSettings is constructed with
    jira,               \* the object that construction returned, or its error
    stdout,             \* the records the logger's handlers wrote to sys.stdout
    logging_transport   \* the argument of the last setup_logging call

mainVars == <<env, argv, main_pc, stderr, handlers>>
runVars == <<started, run_raised>>
auxVars == <<kwargs, jira, stdout, logging_transport>>
vars == <<config, route_config_file, openapi_spec_file, pc, route_maps, raised,
          log, mcp_server, mainVars, runVars, calls, auxVars>>

Unset == [t |-> "unset"]
NoError == [type |-> "none"]

Msg(text, name, path, available, n) ==
    [text |-> text, name |-> name, path |-> path, available |-> available, n |-> n]
LogRecord(level, msg) == [level |-> level, msg |-> msg]
Exception(type, msg) == [type |-> type, msg |-> msg]

\* The strings a formatted message holds in its {...} places.
Mentions(msg, s) == s = msg.name \/ s = msg.path \/ s \in msg.available

-----------------------------------------------------------------------------
(* dict operations of _load_route_config.                                  *)

\* `key in x` raises TypeError unless x is a container.
SupportsIn(x) == x.t \in {"dict", "list", "str"}
\* The enumerated lists and strings hold route patterns, never a key.
PyIn(key, x) == x.t = "dict" /\ key \in DOMAIN x.v
\* x.get(key, default), for a dict x.
PyGet(x, key, default) == IF key \in DOMAIN x.v THEN x.v[key] ELSE default

-----------------------------------------------------------------------------
\* Mutation: the unknown name is reported without the available names.
NotFoundUnlisted(config_name, configurations) ==
    [ret |-> PyList(<<>>),
     log |-> <<LogRecord("ERROR",
                   Msg("Configuration '{name}' not found.", config_name, "", {}, 0))>>]

\* Mutation: an unknown name is answered with [] and no log record.
NotFoundSilent(config_name, configurations) == [ret |-> PyList(<<>>), log |-> <<>>]

\* available = list(config_data["configurations"].keys()); logger.error(...); return []
NotFound(config_name, configurations) ==
    [ret |-> PyList(<<>>),
     log |-> <<LogRecord("ERROR",
                   Msg("Configuration '{name}' not found. Available: {available}",
                       config_name, "", DOMAIN configurations.v, 0))>>]

(* JiraMCPServer._load_route_config: the routes of the file, or [] after   *)
(* an error record.  `ret` is the return value, `log` the records logged.  *)

_load_route_config ==
    LET path == config.mcp.route_config_path
        name == config.mcp.route_config_name
        \* except Exception as e: logger.error(...); return []
        caught ==
            [ret |-> PyList(<<>>),
             log |-> <<LogRecord("ERROR",
                           Msg("Failed to load route config from {path}: {e}",
                               "", path, {}, 0))>>]
        \* logger.info(f"Loaded {len(routes)} routes ..."); return routes
        loaded(routes, text, nm) ==
            IF HasLen(routes)
            THEN [ret |-> routes,
                  log |-> <<LogRecord("INFO", Msg(text, nm, path, {}, PyLen(routes)))>>]
            ELSE caught
    IN  IF path = "" THEN [ret |-> PyList(<<>>), log |-> <<>>]
        ELSE IF route_config_file.kind # "yaml" THEN caught
        ELSE LET config_data == route_config_file.data
             IN  IF name # ""
                 THEN IF ~SupportsIn(config_data) THEN caught
                      ELSE IF PyIn("configurations", config_data)
                      THEN LET configurations == config_data.v["configurations"]
                           IN  IF ~SupportsIn(configurations) THEN caught
                               ELSE IF PyIn(name, configurations)
                               THEN LET entry == configurations.v[name]
                                    IN  IF entry.t # "dict" THEN caught
                                        ELSE loaded(PyGet(entry, "routes", PyList(<<>>)),
                                                    "Loaded {n} routes from configuration '{name}' in {path}",
                                                    name)
                               ELSE IF configurations.t # "dict" THEN caught
                               ELSE NotFound(name, configurations)
                      ELSE [ret |-> PyList(<<>>),
                            log |-> <<LogRecord("ERROR",
                                          Msg("No 'configurations' section found in {path}",
                                              "", path, {}, 0))>>]
                 ELSE IF config_data.t # "dict" THEN caught
                      ELSE loaded(PyGet(config_data, "routes", PyList(<<>>)),
                                  "Loaded {n} routes from {path}", "")

(* JiraMCPServer._get_safe_endpoints: the routes, or ValueError.           *)

\* Mutation: an empty result of the load is passed on as an allow-list.
LoadFailedNever(file_routes) == FALSE

\* Mutation: only None counts as a failed load, an empty list does not.
LoadFailedOnNoneOnly(file_routes) == file_routes = PyNone

\* if not file_routes:
LoadFailed(file_routes) == ~Truthy(file_routes)

\* self.config.mcp.route_config_path and .route_config_name can be read.
HasRouteSettings(mcp) == {"route_config_path", "route_config_name"} \subseteq DOMAIN mcp

_get_safe_endpoints ==
    IF ~HasRouteSettings(config.mcp)
    THEN [raised |-> Exception("AttributeError",
                         Msg("'MCPConfig' object has no attribute 'route_config_path'",
                             "", "", {}, 0)),
          ret |-> PyNone, log |-> <<>>]
    ELSE
    LET path == config.mcp.route_config_path
        name == config.mcp.route_config_name
    IN  IF path = "" \/ name = ""
        THEN [raised |-> Exception("ValueError",
                             Msg("Route configuration is required. Set MCP_ROUTE_CONFIG_PATH and MCP_ROUTE_CONFIG_NAME environment variables.",
                                 "", "", {}, 0)),
              ret |-> PyNone, log |-> <<>>]
        ELSE LET loaded == _load_route_config
                 file_routes == loaded.ret
             IN  IF LoadFailed(file_routes)
                 THEN [raised |-> Exception("ValueError",
                                      Msg("Failed to load configuration '{name}' from {path}",
                                          name, path, {}, 0)),
                       ret |-> PyNone, log |-> loaded.log]
                 ELSE [raised |-> NoError, ret |-> file_routes,
                       log |-> Append(loaded.log,
                                   LogRecord("INFO",
                                       Msg("Using configuration '{name}' with {n} routes",
                                           name, "", {}, PyLen(file_routes))))]

-----------------------------------------------------------------------------
(* JiraMCPServer._get_route_filters.                                       *)

\* RouteMap's defaults: methods "*" and pattern ".*".
AnyMethod == {"*"}
RouteMap(methods, pattern, mcp_type) ==
    [methods |-> methods, pattern |-> pattern, mcp_type |-> mcp_type]

\* Mutation: only the first pattern is compared with the all-operations pattern.
IncludesAllOperationsFirstOnly(safe_endpoints) ==
    /\ Len(Items(safe_endpoints)) >= 1
    /\ Items(safe_endpoints)[1] = PyStr(AllOperationsPattern)

\* Mutation: any pattern that matches every path below /rest/api counts.
IncludesAllOperationsByMatch(safe_endpoints) ==
    \E i \in 1..Len(Items(safe_endpoints)) :
        \A p \in Paths : FullMatch(Items(safe_endpoints)[i].v, p)

\* Mutation: filtering is also skipped when the environment turns the
\* security-filtering flag off.
IncludesAllOperationsOrFlagOff(safe_endpoints) ==
    \/ \E i \in 1..Len(Items(safe_endpoints)) :
           Items(safe_endpoints)[i] = PyStr(AllOperationsPattern)
    \/ /\ "MCP_ENABLE_SECURITY_FILTERING" \in DOMAIN env
       /\ env["MCP_ENABLE_SECURITY_FILTERING"] \in {"false", "0", "no"}

\* any(pattern in [r"^/rest/api/.*", "^/rest/api/.*"] for pattern in safe_endpoints)
IncludesAllOperations(safe_endpoints) ==
    \E i \in 1..Len(Items(safe_endpoints)) :
        Items(safe_endpoints)[i] = PyStr(AllOperationsPattern)

\* Mutation: the destructive-method rule built with the wrong type.
DestructiveFilterAsTool ==
    RouteMap({"POST", "PUT", "PATCH", "DELETE"}, PyStr(AnyPath), "TOOL")

\* SECURITY: Block ALL destructive operations first
DestructiveFilter == RouteMap({"POST", "PUT", "PATCH", "DELETE"}, PyStr(AnyPath), "EXCLUDE")

\* Mutation: the endpoint rules built without methods=["GET"].
EndpointFiltersAnyMethod(safe_endpoints) ==
    [i \in 1..Len(Items(safe_endpoints)) |->
        RouteMap(AnyMethod, Items(safe_endpoints)[i], "TOOL")]

\* Mutation: the last configured endpoint is dropped.
EndpointFiltersDropLast(safe_endpoints) ==
    [i \in 1..(Len(Items(safe_endpoints)) - 1) |->
        RouteMap({"GET"}, Items(safe_endpoints)[i], "TOOL")]

\* Mutation: the first configured endpoint is excluded instead of exposed.
EndpointFiltersFirstExcluded(safe_endpoints) ==
    [i \in 1..Len(Items(safe_endpoints)) |->
        RouteMap({"GET"}, Items(safe_endpoints)[i], IF i = 1 THEN "EXCLUDE" ELSE "TOOL")]

\* Mutation: the endpoint rules also match POST.
EndpointFiltersWithPost(safe_endpoints) ==
    [i \in 1..Len(Items(safe_endpoints)) |->
        RouteMap({"GET", "POST"}, Items(safe_endpoints)[i], "TOOL")]

\* Add configured endpoints (GET only by default)
EndpointFilters(safe_endpoints) ==
    [i \in 1..Len(Items(safe_endpoints)) |->
        RouteMap({"GET"}, Items(safe_endpoints)[i], "TOOL")]

\* Mutation: the trailing rule exposes instead of excluding.
DefaultAllowFilter == RouteMap(AnyMethod, PyStr(AnyPath), "TOOL")

\* SECURITY: Default deny everything else
DefaultDenyFilter == RouteMap(AnyMethod, PyStr(AnyPath), "EXCLUDE")

\* Mutation: the endpoint rules are emitted in reverse order.
FiltersReversed(safe_endpoints) ==
    <<DestructiveFilter>>
        \o [i \in 1..Len(Items(safe_endpoints)) |->
               EndpointFilters(safe_endpoints)[Len(Items(safe_endpoints)) + 1 - i]]
        \o <<DefaultDenyFilter>>

\* Mutation: the trailing default-deny rule is never appended.
FiltersWithoutDefaultDeny(safe_endpoints) ==
    <<DestructiveFilter>> \o EndpointFilters(safe_endpoints)

Filters(safe_endpoints) ==
    <<DestructiveFilter>> \o EndpointFilters(safe_endpoints) \o <<DefaultDenyFilter>>

\* Mutation: the opt-out is logged at info level.
NoFilteringInfo ==
    LogRecord("INFO",
        Msg("Configuration includes all API endpoints - NO FILTERING applied! Destructive operations are possible.",
            "", "", {}, 0))

\* logger.warning("Configuration includes all API endpoints - NO FILTERING applied! ...")
NoFilteringWarning ==
    LogRecord("WARNING",
        Msg("Configuration includes all API endpoints - NO FILTERING applied! Destructive operations are possible.",
            "", "", {}, 0))

_get_route_filters ==
    LET safe == _get_safe_endpoints
        safe_endpoints == safe.ret
    IN  IF safe.raised # NoError
        THEN [raised |-> safe.raised, ret |-> Unset, log |-> safe.log]
        ELSE IF IncludesAllOperations(safe_endpoints)
        THEN [raised |-> NoError, ret |-> PyNone,
              log |-> Append(safe.log, NoFilteringWarning)]
        ELSE [raised |-> NoError, ret |-> PyList(Filters(safe_endpoints)), log |-> safe.log]

-----------------------------------------------------------------------------
(* Evaluation of a policy by the host framework: the first rule whose      *)
(* method set and pattern both match decides.                              *)

Decision(mcp_type) == IF mcp_type = "EXCLUDE" THEN "EXCLUDE" ELSE "EXPOSE"

RuleMatches(rule, method, path) ==
    /\ rule.methods = AnyMethod \/ method \in rule.methods
    /\ FullMatch(rule.pattern.v, path)

RECURSIVE FirstMatch(_, _, _, _)
FirstMatch(rules, i, method, path) ==
    IF i > Len(rules) THEN "NO_MATCH"
    ELSE IF /\ rules[i].methods = AnyMethod \/ method \in rules[i].methods
            /\ ~Compiles(rules[i].pattern)
    THEN "ERROR"
    ELSE IF RuleMatches(rules[i], method, path) THEN Decision(rules[i].mcp_type)
    ELSE FirstMatch(rules, i + 1, method, path)

evaluate(policy, method, path) ==
    IF policy = PyNone THEN "EXPOSE" ELSE FirstMatch(policy.v, 1, method, path)

\* The operations of the OpenAPI document.
Operations == {[method |-> m, path |-> p] : m \in Methods, p \in Paths}

-----------------------------------------------------------------------------
(* JiraMCPServer.__init__ and the steps of initialize().                   *)

\* No main() is running: the server is driven through its methods.
NoMain ==
    env = Unset /\ argv = Unset /\ main_pc = "none" /\ stderr = <<>> /\ handlers = <<>>

\* Nothing has been called yet.
NoRun == started = <<>> /\ run_raised = NoError /\ calls = [filters |-> 0, run |-> 0, initialize |-> 0]

\* No credentials object is being constructed, setup_logging was not called.
NoAux == kwargs = Unset /\ jira = Unset /\ stdout = <<>> /\ logging_transport = ""

Init ==
    /\ config \in {[jira |-> [openapi_spec_path |-> s],
                      mcp |-> [route_config_path |-> p, route_config_name |-> n]] :
                      s \in OpenapiSpecPaths, p \in RouteConfigPaths, n \in RouteConfigNames}
    /\ route_config_file \in RouteConfigFiles
    /\ openapi_spec_file \in OpenapiSpecFiles
    /\ pc = "created"
    /\ route_maps = Unset
    /\ raised = NoError
    /\ log = <<>>
    /\ mcp_server = PyNone
    /\ NoMain
    /\ NoRun
    /\ NoAux

\* Path(__file__).parent / "jira_openapi_spec.json"
_get_bundled_spec_path == "jira_mcp/jira_openapi_spec.json"

\* openapi_spec = self._load_openapi_spec()
LoadOpenapiSpec ==
    /\ pc = "created"
    /\ LET custom == config.jira.openapi_spec_path # ""
           spec_path == IF custom THEN config.jira.openapi_spec_path
                        ELSE _get_bundled_spec_path
       IN  /\ log' = Append(log,
                         IF custom
                         THEN LogRecord("INFO",
                                  Msg("Using custom OpenAPI spec: {spec_path}",
                                      "", spec_path, {}, 0))
                         ELSE LogRecord("INFO",
                                  Msg("Using bundled OpenAPI spec", "", "", {}, 0)))
           /\ IF openapi_spec_file = "ok"
              THEN pc' = "spec_loaded" /\ UNCHANGED raised
              ELSE /\ pc' = "failed"
                   /\ raised' =
                          IF openapi_spec_file = "missing"
                          THEN Exception("FileNotFoundError",
                                   Msg("OpenAPI spec file not found: {spec_path}",
                                       "", spec_path, {}, 0))
                          ELSE Exception("ValueError",
                                   Msg("Invalid JSON in OpenAPI spec file {spec_path}: {e}",
                                       "", spec_path, {}, 0))
    /\ UNCHANGED <<config, route_config_file, openapi_spec_file, route_maps, mcp_server,
                   mainVars, runVars, calls>>
    /\ UNCHANGED auxVars

\* auth_client = await self._create_authenticated_client()
CreateAuthenticatedClient ==
    /\ pc = "spec_loaded"
    /\ pc' = "client_created"
    /\ UNCHANGED <<config, route_config_file, openapi_spec_file, route_maps, raised,
                   log, mcp_server, mainVars, runVars, calls>>
    /\ UNCHANGED auxVars

\* route_maps = self._get_route_filters()
GetRouteFilters ==
    /\ pc = "client_created"
    /\ LET r == _get_route_filters
       IN  /\ log' = log \o r.log
           /\ raised' = r.raised
           /\ route_maps' = r.ret
           /\ pc' = IF r.raised = NoError THEN "filters_built" ELSE "failed"
    /\ calls' = [calls EXCEPT !.filters = @ + 1]
    /\ UNCHANGED <<config, route_config_file, openapi_spec_file, mcp_server, mainVars,
                   runVars>>
    /\ UNCHANGED auxVars

\* if route_maps is None: logger.warning(...) else: logger.info(...)
LogRouteFiltering ==
    /\ pc = "filters_built"
    /\ log' = Append(log,
                  IF route_maps = PyNone
                  THEN LogRecord("WARNING",
                           Msg("No route filtering - ALL endpoints exposed!", "", "", {}, 0))
                  ELSE LogRecord("INFO",
                           Msg("Safe route filtering enabled - only read-only endpoints exposed",
                               "", "", {}, 0)))
    /\ pc' = "filtering_logged"
    /\ UNCHANGED <<config, route_config_file, openapi_spec_file, route_maps, raised,
                   mcp_server, mainVars, runVars, calls>>
    /\ UNCHANGED auxVars

\* self.mcp_server = FastMCP.from_openapi(..., route_maps=route_maps): the
\* host registers the operations the policy exposes.
FromOpenapi ==
    /\ pc = "filtering_logged"
    /\ IF \E op \in Operations : evaluate(route_maps, op.method, op.path) = "ERROR"
       THEN /\ pc' = "failed"
            /\ raised' = Exception("re.error", Msg("nothing to repeat", "", "", {}, 0))
            /\ UNCHANGED mcp_server
       ELSE /\ mcp_server' = [route_maps |-> route_maps,
                              tools |-> {op \in Operations :
                                  evaluate(route_maps, op.method, op.path) = "EXPOSE"}]
            /\ pc' = "initialized"
            /\ UNCHANGED raised
    /\ UNCHANGED <<config, route_config_file, openapi_spec_file, route_maps, log,
                   mainVars, runVars, calls>>
    /\ UNCHANGED auxVars

Next ==
    \/ LoadOpenapiSpec
    \/ CreateAuthenticatedClient
    \/ GetRouteFilters
    \/ LogRouteFiltering
    \/ FromOpenapi

Spec == Init /\ [][Next]_vars

\* The server started on a route configuration file written with mistakes.
InitMalformed ==
    /\ config \in {[jira |-> [openapi_spec_path |-> s],
                      mcp |-> [route_config_path |-> p, route_config_name |-> n]] :
                      s \in OpenapiSpecPaths, p \in RouteConfigPaths, n \in RouteConfigNames}
    /\ route_config_file \in MalformedRouteConfigFiles
    /\ openapi_spec_file \in OpenapiSpecFiles
    /\ pc = "created"
    /\ route_maps = Unset
    /\ raised = NoError
    /\ log = <<>>
    /\ mcp_server = PyNone
    /\ NoMain
    /\ NoRun
    /\ NoAux

SpecMalformed == InitMalformed /\ [][Next]_vars

-----------------------------------------------------------------------------
(* Route configurations whose patterns overlap, repeat, or cover as much   *)
(* as the all-operations pattern without being that string.                *)

\* ^/rest/api/3/issue/.*  -- every path below an issue, the issue included
IssueTreePattern == <<"^">> \o RestApi3 \o Issue \o <<"/", ".", "*">>
\* ^/rest/.*
RestPattern == <<"^", "/", "r", "e", "s", "t", "/", ".", "*">>
\* ^/rest/api/.*$
AllOperationsAnchoredPattern == AllOperationsPattern \o <<"$">>

OverlapPool ==
    {IssuePattern, IssueTreePattern, AnyPath, RestPattern, AllOperationsAnchoredPattern,
     AllOperationsPattern}

OverlapRouteConfigFiles ==
    {[kind |-> "yaml",
      data |-> PyDict("configurations" :>
                   PyDict("read-only-plus" :> PyDict("routes" :> PyList(s))))] :
        s \in SeqsUpTo({PyStr(p) : p \in OverlapPool}, MaxRoutes)}

InitOverlap ==
    /\ config \in {[jira |-> [openapi_spec_path |-> s],
                      mcp |-> [route_config_path |-> "./route-configs.yaml",
                               route_config_name |-> "read-only-plus"]] :
                      s \in OpenapiSpecPaths}
    /\ route_config_file \in OverlapRouteConfigFiles
    /\ openapi_spec_file \in OpenapiSpecFiles
    /\ pc = "created"
    /\ route_maps = Unset
    /\ raised = NoError
    /\ log = <<>>
    /\ mcp_server = PyNone
    /\ NoMain
    /\ NoRun
    /\ NoAux

SpecOverlap == InitOverlap /\ [][Next]_vars

-----------------------------------------------------------------------------
(* JiraMCPServer.run, called on a server built from AppSettings.           *)

\* MCPSettings.port: int = 8000
DefaultPort == 8000
Ports == {DefaultPort, DefaultPort + 1}
\* MCPSettings.transport is any str; "websocket" stands for the unsupported.
Transports == {"stdio", "http", "sse", "websocket"}

\* Mutation: the initialization guard of run() is dropped.
NotInitializedNever == FALSE

\* if not self.mcp_server:
NotInitialized == mcp_server = PyNone

\* Mutation: the sse branch forgets the port, the http branch runs sse.
DispatchConfused(transport, port) ==
    CASE transport = "stdio" -> <<[transport |-> "stdio"]>>
      [] transport = "http" -> <<[transport |-> "sse", port |-> port]>>
      [] transport = "sse" -> <<[transport |-> "sse"]>>
      [] OTHER -> <<[transport |-> transport]>>

\* The call self.mcp_server.run(...) made for a transport setting; none for
\* a setting that is not one of the three.
Dispatch(transport, port) ==
    CASE transport = "stdio" -> <<[transport |-> "stdio"]>>
      [] transport = "http" -> <<[transport |-> "streamable-http", port |-> port]>>
      [] transport = "sse" -> <<[transport |-> "sse", port |-> port]>>
      [] OTHER -> <<>>

\* JiraMCPServer.run(): the exception it raises and the transport it starts.
run ==
    IF NotInitialized
    THEN [raised |-> Exception("RuntimeError",
                         Msg("Server not initialized. Call initialize() first.",
                             "", "", {}, 0)),
          started |-> <<>>]
    ELSE LET transport == config.mcp.transport
             call == Dispatch(transport, config.mcp.port)
         IN  IF call = <<>>
             THEN [raised |-> Exception("ValueError",
                                  Msg("Unsupported transport: {transport}",
                                      transport, "", {}, 0)),
                   started |-> <<>>]
             ELSE [raised |-> NoError, started |-> call]

\* server.run() called by the owner of the server, between two of its other
\* calls or while initialize() is suspended at its await.
Run ==
    /\ main_pc = "none"
    /\ pc \in {"created", "spec_loaded", "failed", "initialized"}
    /\ calls.run < MaxRuns
    /\ started' = started \o run.started
    /\ run_raised' = run.raised
    /\ calls' = [calls EXCEPT !.run = @ + 1]
    /\ UNCHANGED <<config, route_config_file, openapi_spec_file, pc, route_maps, raised,
                   log, mcp_server, mainVars>>
    /\ UNCHANGED auxVars

\* Catalogs with a read-only-plus entry next to the full-access one.
ServerRouteConfigFiles ==
    {[kind |-> "missing"]}
        \cup {[kind |-> "yaml",
               data |-> PyDict("configurations" :>
                            PyDict("read-only-plus" :> PyDict("routes" :> PyList(s))
                                   @@ "full-access" :> FullAccess))] :
              s \in SeqsUpTo({PyStr(p) : p \in PatternPool}, MaxRoutes)}

\* A server built from AppSettings, with any transport setting.
InitServer ==
    /\ config \in {[jira |-> [openapi_spec_path |-> ""],
                      mcp |-> [transport |-> t, port |-> p,
                               route_config_path |-> "./route-configs.yaml",
                               route_config_name |-> n]] :
                      t \in Transports, p \in Ports, n \in {"read-only-plus", "full-access"}}
    /\ route_config_file \in ServerRouteConfigFiles
    /\ openapi_spec_file \in {"ok", "missing"}
    /\ pc = "created"
    /\ route_maps = Unset
    /\ raised = NoError
    /\ log = <<>>
    /\ mcp_server = PyNone
    /\ NoMain
    /\ NoRun
    /\ NoAux

NextServer == Next \/ Run

SpecServer == InitServer /\ [][NextServer]_vars

-----------------------------------------------------------------------------
(* initialize() called again on the same server, after a failure or after  *)
(* a success, with the files as they are at that moment.                   *)

MaxRetries == 1

RetryRouteConfigFiles ==
    {[kind |-> "missing"]}
        \cup {[kind |-> "yaml",
               data |-> PyDict("configurations" :>
                            PyDict("read-only-plus" :> PyDict("routes" :> PyList(<<PyStr(p)>>))))] :
              p \in {IssuePattern, SearchPattern}}

\* Mutation: a new call of initialize() drops the server built before.
InitializeAgainClearing ==
    /\ main_pc = "none"
    /\ pc \in {"failed", "initialized"}
    /\ calls.initialize < MaxRetries
    /\ route_config_file' \in RetryRouteConfigFiles
    /\ openapi_spec_file' \in OpenapiSpecFiles
    /\ pc' = "created"
    /\ raised' = NoError
    /\ route_maps' = Unset
    /\ mcp_server' = PyNone
    /\ calls' = [calls EXCEPT !.initialize = @ + 1]
    /\ UNCHANGED <<config, log, mainVars, runVars>>
    /\ UNCHANGED auxVars

\* async def initialize(self): entered again; the locals of the earlier
\* call are gone, self.mcp_server is not touched until the last statement.
InitializeAgain ==
    /\ main_pc = "none"
    /\ pc \in {"failed", "initialized"}
    /\ calls.initialize < MaxRetries
    /\ route_config_file' \in RetryRouteConfigFiles
    /\ openapi_spec_file' \in OpenapiSpecFiles
    /\ pc' = "created"
    /\ raised' = NoError
    /\ route_maps' = Unset
    /\ calls' = [calls EXCEPT !.initialize = @ + 1]
    /\ UNCHANGED <<config, log, mcp_server, mainVars, runVars>>
    /\ UNCHANGED auxVars

InitRetry ==
    /\ config \in {[jira |-> [openapi_spec_path |-> ""],
                      mcp |-> [transport |-> t, port |-> DefaultPort,
                               route_config_path |-> "./route-configs.yaml",
                               route_config_name |-> "read-only-plus"]] :
                      t \in {"stdio", "http"}}
    /\ route_config_file \in RetryRouteConfigFiles
    /\ openapi_spec_file \in OpenapiSpecFiles
    /\ pc = "created"
    /\ route_maps = Unset
    /\ raised = NoError
    /\ log = <<>>
    /\ mcp_server = PyNone
    /\ NoMain
    /\ NoRun
    /\ NoAux

NextRetry == Next \/ Run \/ InitializeAgain

SpecRetry == InitRetry /\ [][NextRetry]_vars

-----------------------------------------------------------------------------
(* AppConfig.from_env and the JiraConfig validator (config.py).            *)

\* Values of a credential variable: empty, blank, plain, padded.
CredentialValues == {<<>>, <<" ">>, <<"x">>, <<" ", "x", " ">>}
\* Values of MCP_PORT: a port number, and text that is no number.
PortValues == {<<"9", "0", "0", "0">>, <<"a", "b", "c">>}

\* The environments in which a variable is unset or has one of the values.
Optional(name, values) == {[x \in {} |-> x]} \cup {name :> v : v \in values}

\* The route settings are in the environment; from_env does not read them.
RouteEnv ==
    "MCP_ROUTE_CONFIG_PATH" :> "./route-configs.yaml"
        @@ "MCP_ROUTE_CONFIG_NAME" :> "read-only-plus"

Environments ==
    {b @@ u @@ t @@ tr @@ po @@ RouteEnv :
        b \in Optional("JIRA_BASE_URL", CredentialValues),
        u \in Optional("JIRA_API_USER", CredentialValues),
        t \in Optional("JIRA_API_TOKEN", CredentialValues),
        tr \in Optional("MCP_TRANSPORT", {"http", "websocket"}),
        po \in Optional("MCP_PORT", PortValues)}

\* os.getenv(name, default)
getenv(e, name, default) == IF name \in DOMAIN e THEN e[name] ELSE default

\* `not os.getenv(name)`: the variable is unset or empty.
Missing(e, name) == name \notin DOMAIN e \/ e[name] = <<>>

Digits == <<"0", "1", "2", "3", "4", "5", "6", "7", "8", "9">>
IsDigits(s) == Len(s) >= 1 /\ \A i \in 1..Len(s) : \E d \in 1..10 : Digits[d] = s[i]
DigitValue(c) == (CHOOSE d \in 1..10 : Digits[d] = c) - 1

RECURSIVE ParseInt(_)
\* int(s) for a string of decimal digits (the values enumerated hold no sign,
\* blank or underscore); ValueError otherwise.
ParseInt(s) ==
    IF Len(s) = 1 THEN DigitValue(s[1])
    ELSE 10 * ParseInt(SubSeq(s, 1, Len(s) - 1)) + DigitValue(s[Len(s)])

\* The whitespace str.strip() removes, as far as it is typed here.
Whitespace == {" ", "\t", "\n"}

RECURSIVE Strip(_)
\* v.strip()
Strip(v) ==
    IF v = <<>> THEN v
    ELSE IF Head(v) \in Whitespace THEN Strip(Tail(v))
    ELSE IF v[Len(v)] \in Whitespace THEN Strip(SubSeq(v, 1, Len(v) - 1))
    ELSE v

\* JiraConfig.validate_not_empty raises for v.
FieldEmpty(v) == v = <<>> \/ Strip(v) = <<>>

\* str.lower() on the spellings of the flag values.
lower(s) ==
    CASE s \in {"TRUE", "True"} -> "true"
      [] s \in {"YES", "Yes"} -> "yes"
      [] OTHER -> s

\* Mutation: the required variables are tested in the opposite order.
RequiredVariablesReversed == <<"JIRA_API_TOKEN", "JIRA_API_USER", "JIRA_BASE_URL">>

\* The order in which from_env tests the required variables.
RequiredVariables == <<"JIRA_BASE_URL", "JIRA_API_USER", "JIRA_API_TOKEN">>

RequiredError(name) ==
    Exception("ValueError", Msg("{name} environment variable is required", name, "", {}, 0))

\* AppConfig.from_env(): the exception raised, or the configuration built.
from_env(e) ==
    LET missing == {i \in 1..3 : Missing(e, RequiredVariables[i])}
        first == CHOOSE i \in missing : \A j \in missing : i <= j
        timeout == getenv(e, "JIRA_TIMEOUT", <<"3", "0">>)
        port == getenv(e, "MCP_PORT", <<"8", "0", "0", "0">>)
        spec_path == getenv(e, "JIRA_OPENAPI_SPEC_PATH", "")
        fields == <<e["JIRA_BASE_URL"], e["JIRA_API_USER"], e["JIRA_API_TOKEN"]>>
    IN  IF missing # {}
        THEN [raised |-> RequiredError(RequiredVariables[first]), ret |-> Unset]
        ELSE IF ~IsDigits(timeout) \/ ~IsDigits(port)
        THEN [raised |-> Exception("ValueError",
                             Msg("invalid literal for int() with base 10", "", "", {}, 0)),
              ret |-> Unset]
        ELSE IF \E i \in 1..3 : FieldEmpty(fields[i])
        THEN [raised |-> Exception("ValidationError",
                             Msg("Field cannot be empty", "", "", {}, 0)),
              ret |-> Unset]
        ELSE [raised |-> NoError,
              ret |-> [jira |-> [base_url |-> Strip(fields[1]),
                                 user |-> Strip(fields[2]),
                                 api_token |-> Strip(fields[3]),
                                 timeout |-> ParseInt(timeout),
                                 openapi_spec_path |-> spec_path],
                       mcp |-> [transport |-> getenv(e, "MCP_TRANSPORT", "stdio"),
                                port |-> ParseInt(port),
                                log_level |-> getenv(e, "MCP_LOG_LEVEL", "INFO"),
                                enable_security_filtering |->
                                    lower(getenv(e, "MCP_ENABLE_SECURITY_FILTERING",
                                                 "true")) \in {"true", "1", "yes"}]]]

-----------------------------------------------------------------------------
(* JiraConfig(...) and JiraSettings(...) constructed from keyword          *)
(* arguments (config.py 14-29, settings.py 14-34).                         *)

\* A blank, a tab and a letter: what a credential is typed from.
FieldChars == {" ", "\t", "x"}

\* The keyword arguments base_url, user and api_token: every way of cutting
\* a string of at most MaxChars characters in three.
KwargsValues ==
    UNION {UNION {{[base_url |-> SubSeq(s, 1, i),
                    user |-> SubSeq(s, i + 1, j),
                    api_token |-> SubSeq(s, j + 1, Len(s))] : j \in i..Len(s)} :
                  i \in 0..Len(s)} :
           s \in SeqsUpTo(FieldChars, MaxChars)}

Fields == {"base_url", "user", "api_token"}

RECURSIVE LStrip(_)
\* v.lstrip()
LStrip(v) == IF v # <<>> /\ Head(v) \in Whitespace THEN LStrip(Tail(v)) ELSE v

\* Mutation: the validator strips the left side only.
validate_not_empty_lstrip(v) ==
    IF FieldEmpty(v)
    THEN [raised |-> Exception("ValueError", Msg("Field cannot be empty", "", "", {}, 0)),
          ret |-> Unset]
    ELSE [raised |-> NoError, ret |-> LStrip(v)]

\* validate_not_empty(cls, v) of JiraConfig and of JiraSettings
validate_not_empty(v) ==
    IF FieldEmpty(v)
    THEN [raised |-> Exception("ValueError", Msg("Field cannot be empty", "", "", {}, 0)),
          ret |-> Unset]
    ELSE [raised |-> NoError, ret |-> Strip(v)]

\* The model built from kw, or the validation error listing the fields
\* that the validator rejects.
Construct(cls, kw) ==
    LET rejected == {f \in Fields : validate_not_empty(kw[f]).raised # NoError}
    IN  IF rejected # {}
        THEN [cls |-> cls,
              raised |-> Exception("ValidationError",
                             Msg("Field cannot be empty", "", "", rejected, 0))]
        ELSE [cls |-> cls, raised |-> NoError,
              base_url |-> validate_not_empty(kw.base_url).ret,
              user |-> validate_not_empty(kw.user).ret,
              api_token |-> validate_not_empty(kw.api_token).ret]

\* JiraConfig(base_url=..., user=..., api_token=...)
ConstructJiraConfig ==
    /\ kwargs # Unset
    /\ jira = Unset
    /\ jira' = Construct("JiraConfig", kwargs)
    /\ UNCHANGED <<config, route_config_file, openapi_spec_file, pc, route_maps, raised,
                   log, mcp_server, mainVars, runVars, calls, kwargs, stdout,
                   logging_transport>>

\* JiraSettings(base_url=..., user=..., api_token=...)
ConstructJiraSettings ==
    /\ kwargs # Unset
    /\ jira = Unset
    /\ jira' = Construct("JiraSettings", kwargs)
    /\ UNCHANGED <<config, route_config_file, openapi_spec_file, pc, route_maps, raised,
                   log, mcp_server, mainVars, runVars, calls, kwargs, stdout,
                   logging_transport>>

\* The credentials object is about to be constructed; no server exists.
InitValidation ==
    /\ kwargs \in KwargsValues
    /\ jira = Unset
    /\ stdout = <<>> /\ logging_transport = ""
    /\ config = Unset
    /\ route_config_file = [kind |-> "missing"]
    /\ openapi_spec_file = "missing"
    /\ pc = "none"
    /\ route_maps = Unset
    /\ raised = NoError
    /\ log = <<>>
    /\ mcp_server = Unset
    /\ NoMain
    /\ NoRun

NextValidation == ConstructJiraConfig \/ ConstructJiraSettings

SpecValidation == InitValidation /\ [][NextValidation]_vars

-----------------------------------------------------------------------------
(* main() of __main__.py, and JiraMCPServer.start().                       *)

\* setup_logging(transport): every handler of the "jira_mcp" logger is
\* removed and one StreamHandler is added.
\* logging.StreamHandler(sys.stderr) for stdio, logging.StreamHandler(sys.stdout)
\* for every other transport.
StreamHandler(transport) == IF transport = "stdio" THEN "stderr" ELSE "stdout"

\* logger.removeHandler(h): the list without the first entry that is h.
RECURSIVE removeHandler(_, _)
removeHandler(hs, h) ==
    IF hs = <<>> THEN <<>>
    ELSE IF Head(hs) = h THEN Tail(hs)
    ELSE <<Head(hs)>> \o removeHandler(Tail(hs), h)

RECURSIVE RemoveEach(_, _)
RemoveEach(hs, copy) ==
    IF copy = <<>> THEN hs ELSE RemoveEach(removeHandler(hs, Head(copy)), Tail(copy))

\* Mutation: the handlers of earlier calls stay on the logger.
RemoveHandlersNone(hs) == hs

\* for handler in logger.handlers[:]: logger.removeHandler(handler)
RemoveHandlers(hs) == RemoveEach(hs, hs)

\* setup_logging(transport): the handlers of the "jira_mcp" logger after
\* the call.
setup_logging(transport) == Append(RemoveHandlers(handlers), StreamHandler(transport))

\* except ValueError (pydantic's ValidationError is a ValueError)
IsValueError(exc) == exc.type \in {"ValueError", "ValidationError"}

\* Mutation: the handler around initialize() and run() catches nothing.
CaughtNever(exc) == FALSE

\* except (RuntimeError, ValueError, OSError)
Caught(exc) ==
    exc.type \in {"RuntimeError", "ValueError", "ValidationError", "OSError",
                  "FileNotFoundError"}

\* Mutation: main() goes on to run() whatever initialize() did.
InitializeRaisedNever == FALSE

\* asyncio.run(server.initialize()) raised.
InitializeRaised == pc = "failed"

\* The command lines: no option, or --transport sse --port 8001.
CommandLines ==
    {[transport |-> t, port |-> p] : t \in {<<>>, <<"sse">>}, p \in {<<>>, <<DefaultPort + 1>>}}

\* A catalog that resolves for the name read-only-plus.
GoodRouteConfigFile ==
    [kind |-> "yaml",
     data |-> PyDict("configurations" :>
                  PyDict("read-only-plus" :>
                             PyDict("routes" :> PyList(<<PyStr(SearchPattern),
                                                         PyStr(IssuePattern)>>))
                         @@ "full-access" :> FullAccess))]

\* The try block of main(): from_env, the command-line overrides,
\* setup_logging and the first log records; on ValueError the message on
\* stderr and return.
MainLoadConfig ==
    /\ main_pc = "start"
    /\ LET r == from_env(env)
           transport == IF argv.transport # <<>> THEN argv.transport[1]
                        ELSE r.ret.mcp.transport
           port == IF argv.port # <<>> /\ argv.port[1] # 0 THEN argv.port[1]
                   ELSE r.ret.mcp.port
       IN  IF r.raised = NoError
           THEN /\ config' = [r.ret EXCEPT !.mcp.transport = transport, !.mcp.port = port]
                /\ handlers' = setup_logging(transport)
                /\ logging_transport' = transport
                /\ log' = log \o <<LogRecord("INFO", Msg("Jira MCP Server v0.1.0", "", "", {}, 0)),
                                   LogRecord("INFO", Msg("Jira URL: %s", "", "", {}, 0)),
                                   LogRecord("INFO", Msg("Jira User: %s", "", "", {}, 0)),
                                   LogRecord("INFO", Msg("Transport: %s", transport, "", {}, 0))>>
                               \o (IF transport # "stdio"
                                   THEN <<LogRecord("INFO", Msg("Port: %s", "", "", {}, port))>>
                                   ELSE <<>>)
                /\ main_pc' = "configured"
                /\ UNCHANGED stderr
           ELSE /\ IsValueError(r.raised)
                /\ stderr' = stderr \o <<[text |-> "Configuration error: {e}", e |-> r.raised.msg],
                                         [text |-> "Required environment variables:"],
                                         [text |-> "  JIRA_BASE_URL - Your Jira instance URL"],
                                         [text |-> "  JIRA_API_USER - Your Jira username/email"],
                                         [text |-> "  JIRA_API_TOKEN - Your Jira API token"]>>
                /\ main_pc' = "returned"
                /\ UNCHANGED <<config, handlers, log, logging_transport>>
    /\ UNCHANGED <<route_config_file, openapi_spec_file, pc, route_maps, raised, mcp_server,
                   env, argv, runVars, calls>>
    /\ UNCHANGED <<kwargs, jira, stdout>>

\* logger.info("Starting Jira MCP server..."); server = JiraMCPServer(config)
MainCreateServer ==
    /\ main_pc = "configured"
    /\ log' = Append(log, LogRecord("INFO", Msg("Starting Jira MCP server...", "", "", {}, 0)))
    /\ pc' = "created"
    /\ mcp_server' = PyNone
    /\ main_pc' = "initializing"
    /\ UNCHANGED <<config, route_config_file, openapi_spec_file, route_maps, raised,
                   env, argv, stderr, handlers, runVars, calls>>
    /\ UNCHANGED auxVars

\* What follows asyncio.run(server.initialize()) in main(): server.run() if
\* it returned; if it or run() raised, the handler for the exceptions it
\* catches, and the end of the process for the others.
MainServe ==
    /\ main_pc = "initializing"
    /\ pc \in {"failed", "initialized"}
    /\ IF InitializeRaised
       THEN /\ IF Caught(raised)
               THEN /\ log' = Append(log, LogRecord("ERROR",
                                              Msg("Failed to start server: %s", "", "", {}, 0)))
                    /\ main_pc' = "returned"
               ELSE /\ main_pc' = "crashed"
                    /\ UNCHANGED log
            /\ UNCHANGED <<runVars, calls>>
       ELSE /\ started' = started \o run.started
            /\ run_raised' = run.raised
            /\ calls' = [calls EXCEPT !.run = @ + 1]
            /\ IF run.raised = NoError
               THEN main_pc' = "serving" /\ UNCHANGED log
               ELSE IF Caught(run.raised)
               THEN /\ log' = Append(log, LogRecord("ERROR",
                                              Msg("Failed to start server: %s", "", "", {}, 0)))
                    /\ main_pc' = "returned"
               ELSE main_pc' = "crashed" /\ UNCHANGED log
    /\ UNCHANGED <<config, route_config_file, openapi_spec_file, pc, route_maps, raised,
                   mcp_server, env, argv, stderr, handlers>>
    /\ UNCHANGED auxVars

\* JiraMCPServer.start(): self.run() once initialize() has returned; an
\* exception of initialize() or run() leaves start().
StartRun ==
    /\ main_pc = "start()"
    /\ pc \in {"failed", "initialized"}
    /\ IF InitializeRaised
       THEN main_pc' = "start() raised" /\ UNCHANGED <<runVars, calls>>
       ELSE /\ started' = started \o run.started
            /\ run_raised' = run.raised
            /\ calls' = [calls EXCEPT !.run = @ + 1]
            /\ main_pc' = IF run.raised = NoError THEN "start() serving" ELSE "start() raised"
    /\ UNCHANGED <<config, route_config_file, openapi_spec_file, pc, route_maps, raised,
                   log, mcp_server, env, argv, stderr, handlers>>
    /\ UNCHANGED auxVars

\* The process enters main() with some environment and command line.
InitMain ==
    /\ env \in Environments
    /\ argv \in CommandLines
    /\ main_pc = "start"
    /\ stderr = <<>>
    /\ handlers = <<>>
    /\ config = Unset
    /\ route_config_file = GoodRouteConfigFile
    /\ openapi_spec_file \in {"ok", "missing"}
    /\ pc = "none"
    /\ route_maps = Unset
    /\ raised = NoError
    /\ log = <<>>
    /\ mcp_server = Unset
    /\ NoRun
    /\ NoAux

\* start() is called on a server built from AppSettings.
InitStart ==
    /\ env = Unset /\ argv = Unset /\ stderr = <<>> /\ handlers = <<>>
    /\ main_pc = "start()"
    /\ config \in {[jira |-> [openapi_spec_path |-> ""],
                      mcp |-> [transport |-> t, port |-> p,
                               route_config_path |-> "./route-configs.yaml",
                               route_config_name |-> n]] :
                      t \in Transports, p \in Ports, n \in {"read-only-plus", "full-access"}}
    /\ route_config_file \in {GoodRouteConfigFile, [kind |-> "missing"]}
    /\ openapi_spec_file \in {"ok", "missing"}
    /\ pc = "created"
    /\ route_maps = Unset
    /\ raised = NoError
    /\ log = <<>>
    /\ mcp_server = PyNone
    /\ NoRun
    /\ NoAux

InitStartup == InitMain \/ InitStart

NextStartup ==
    \/ MainLoadConfig
    \/ MainCreateServer
    \/ Next
    \/ MainServe
    \/ StartRun

SpecStartup == InitStartup /\ [][NextStartup]_vars

-----------------------------------------------------------------------------
(* MCP_ENABLE_SECURITY_FILTERING in the environment of main(), which       *)
(* builds AppConfig, and of a server built from AppSettings().             *)

FlagValues == {"true", "TRUE", "1", "yes", "false", "0", "no"}

FlagEnvironments ==
    {("JIRA_BASE_URL" :> <<"x">>) @@ ("JIRA_API_USER" :> <<"x">>)
        @@ ("JIRA_API_TOKEN" :> <<"x">>) @@ f @@ n
        @@ ("MCP_ROUTE_CONFIG_PATH" :> "./route-configs.yaml") :
        f \in Optional("MCP_ENABLE_SECURITY_FILTERING", FlagValues),
        n \in Optional("MCP_ROUTE_CONFIG_NAME", {"read-only-plus", "full-access"})}

\* AppSettings(): JiraSettings() and MCPSettings() filled from the
\* environment, field by field; a variable that names no field is not read.
AppSettings(e) ==
    [jira |-> [openapi_spec_path |-> getenv(e, "JIRA_OPENAPI_SPEC_PATH", "")],
     mcp |-> [transport |-> getenv(e, "MCP_TRANSPORT", "stdio"),
              port |-> ParseInt(getenv(e, "MCP_PORT", <<"8", "0", "0", "0">>)),
              route_config_path |-> getenv(e, "MCP_ROUTE_CONFIG_PATH", "./route-configs.yaml"),
              route_config_name |-> getenv(e, "MCP_ROUTE_CONFIG_NAME", "read-only-plus")]]

InitFlagMain ==
    /\ env \in FlagEnvironments
    /\ argv \in CommandLines
    /\ main_pc = "start"
    /\ stderr = <<>>
    /\ handlers = <<>>
    /\ config = Unset
    /\ route_config_file \in {GoodRouteConfigFile, [kind |-> "missing"]}
    /\ openapi_spec_file \in {"ok", "missing"}
    /\ pc = "none"
    /\ route_maps = Unset
    /\ raised = NoError
    /\ log = <<>>
    /\ mcp_server = Unset
    /\ NoRun
    /\ NoAux

InitFlagStart ==
    /\ env \in FlagEnvironments
    /\ argv = Unset /\ stderr = <<>> /\ handlers = <<>>
    /\ main_pc = "start()"
    /\ config = AppSettings(env)
    /\ route_config_file \in {GoodRouteConfigFile, [kind |-> "missing"]}
    /\ openapi_spec_file \in {"ok", "missing"}
    /\ pc = "created"
    /\ route_maps = Unset
    /\ raised = NoError
    /\ log = <<>>
    /\ mcp_server = PyNone
    /\ NoRun
    /\ NoAux

InitFlag == InitFlagMain \/ InitFlagStart

SpecFlag == InitFlag /\ [][NextStartup]_vars

-----------------------------------------------------------------------------
(* setup_logging called any number of times in one process, with records   *)
(* logged on the "jira_mcp" logger in between.                             *)

MaxRecords == 3

\* What a stream holds after the handlers in hs that write to it have
\* emitted record n.
Emitted(stream, name, hs, n) ==
    stream \o [i \in 1..Cardinality({j \in 1..Len(hs) : hs[j] = name}) |-> [n |-> n]]

\* setup_logging(transport)
SetupLogging ==
    /\ \E transport \in Transports :
           /\ handlers' = setup_logging(transport)
           /\ logging_transport' = transport
    /\ UNCHANGED <<config, route_config_file, openapi_spec_file, pc, route_maps, raised,
                   log, mcp_server, env, argv, main_pc, stderr, runVars, calls,
                   kwargs, jira, stdout>>

\* logger.info(...) on the "jira_mcp" logger: every handler of the logger
\* writes the record to its stream; with no handler an INFO record is
\* written nowhere.
LoggerInfo ==
    /\ Len(log) < MaxRecords
    /\ log' = Append(log, LogRecord("INFO", Msg("%s", "", "", {}, Len(log) + 1)))
    /\ stderr' = Emitted(stderr, "stderr", handlers, Len(log) + 1)
    /\ stdout' = Emitted(stdout, "stdout", handlers, Len(log) + 1)
    /\ UNCHANGED <<config, route_config_file, openapi_spec_file, pc, route_maps, raised,
                   mcp_server, env, argv, main_pc, handlers, runVars, calls,
                   kwargs, jira, logging_transport>>

InitLogging ==
    /\ config = Unset
    /\ route_config_file = [kind |-> "missing"]
    /\ openapi_spec_file = "missing"
    /\ pc = "none"
    /\ route_maps = Unset
    /\ raised = NoError
    /\ log = <<>>
    /\ mcp_server = Unset
    /\ NoMain
    /\ NoRun
    /\ NoAux

NextLogging == SetupLogging \/ LoggerInfo

SpecLogging == InitLogging /\ [][NextLogging]_vars

-----------------------------------------------------------------------------
(* Vocabulary of the properties.                                           *)

\* _get_route_filters has been called and has returned or raised.
FiltersCalled ==
    \/ pc \in {"filters_built", "filtering_logged", "initialized"}
    \/ pc = "failed" /\ openapi_spec_file = "ok"

\* _get_route_filters returned a policy.
Built == pc \in {"filters_built", "filtering_logged", "initialized"}

\* The policy returned is a rule list, not the Unfiltered value None.
Filtered == Built /\ route_maps # PyNone

\* The file holds a `configurations` mapping.
HasCatalog ==
    /\ route_config_file.kind = "yaml"
    /\ route_config_file.data.t = "dict"
    /\ "configurations" \in DOMAIN route_config_file.data.v
    /\ route_config_file.data.v["configurations"].t = "dict"

Catalog == route_config_file.data.v["configurations"].v

\* The configuration names a catalog entry that holds a `routes` key.
Resolves ==
    /\ config.mcp.route_config_path # ""
    /\ config.mcp.route_config_name # ""
    /\ HasCatalog
    /\ config.mcp.route_config_name \in DOMAIN Catalog
    /\ Catalog[config.mcp.route_config_name].t = "dict"
    /\ "routes" \in DOMAIN Catalog[config.mcp.route_config_name].v

ResolvedRoutes == Catalog[config.mcp.route_config_name].v["routes"]

\* The resolved allow-list is a non-empty list of patterns.
ResolvesToAllowList ==
    Resolves /\ ResolvedRoutes.t = "list" /\ Len(ResolvedRoutes.v) >= 1

\* The patterns the rule list is built from, in order.
AllowList == Items(ResolvedRoutes)

ContainsSentinel(list) == \E i \in 1..Len(list) : list[i] = PyStr(AllOperationsPattern)

HasWarning(records) == \E i \in 1..Len(records) : records[i].level = "WARNING"

Op(method, path) == [method |-> method, path |-> path]

-----------------------------------------------------------------------------
(* Properties.                                                             *)

\* C1 -- Destructive veto precedence: whenever the resolved allow-list holds
\* no all-operations sentinel, _get_route_filters returns a rule list under
\* which every POST, PUT, PATCH and DELETE operation is classified EXCLUDE,
\* whatever the allow patterns are, and the host registers none of them.
C1_DestructiveVetoPrecedence ==
    /\ (FiltersCalled /\ ResolvesToAllowList /\ ~ContainsSentinel(AllowList)) => Filtered
    /\ Filtered =>
           \A m \in DestructiveMethods, p \in Paths : evaluate(route_maps, m, p) = "EXCLUDE"
    /\ (Filtered /\ pc = "initialized") =>
           \A op \in mcp_server.tools : op.method \notin DestructiveMethods

\* C1 witness: a filtered policy whose allow pattern matches a path that a
\* POST operation also names; the GET is a tool, the POST is not.
C1_Witness ==
    /\ Filtered /\ pc = "initialized"
    /\ ResolvesToAllowList /\ ~ContainsSentinel(AllowList)
    /\ Op("GET", IssueABC1) \in mcp_server.tools
    /\ Op("POST", IssueABC1) \notin mcp_server.tools

\* C2 -- Unfiltered bypass: whenever the resolved allow-list holds the
\* all-operations sentinel, at any position and with or without other
\* patterns, _get_route_filters returns None (no veto, allow or default-deny
\* rule), evaluation under it gives EXPOSE for every method and path, the
\* destructive ones included, and the host registers every operation.
C2_UnfilteredBypass ==
    (FiltersCalled /\ ResolvesToAllowList /\ ContainsSentinel(AllowList)) =>
        /\ Built
        /\ route_maps = PyNone
        /\ \A m \in Methods, p \in Paths : evaluate(route_maps, m, p) = "EXPOSE"
        /\ pc = "initialized" => mcp_server.tools = Operations

\* C2 witness: the sentinel stands second, after another pattern, and a
\* DELETE operation has been registered.
C2_Witness ==
    /\ pc = "initialized"
    /\ ResolvesToAllowList
    /\ AllowList = <<PyStr(SearchPattern), PyStr(AllOperationsPattern)>>
    /\ route_maps = PyNone
    /\ Op("DELETE", SearchPath) \in mcp_server.tools

\* C3 -- Rule-list shape and order: for a sentinel-free allow-list p1..pn
\* (n >= 1) the returned list has exactly n+2 rules: first the rule
\* ({POST,PUT,PATCH,DELETE}, any path, EXCLUDE), then ({GET}, pi, TOOL) for
\* i = 1..n in the configured order with duplicates kept, last the rule
\* (any method, .*, EXCLUDE); every returned list starts and ends with
\* those two rules.
C3_RuleListShape ==
    /\ (FiltersCalled /\ ResolvesToAllowList /\ ~ContainsSentinel(AllowList)) =>
           /\ Filtered
           /\ Len(route_maps.v) = Len(AllowList) + 2
           /\ \A i \in 1..Len(AllowList) :
                  route_maps.v[i + 1] =
                      [methods |-> {"GET"}, pattern |-> AllowList[i], mcp_type |-> "TOOL"]
    /\ Filtered =>
           /\ Len(route_maps.v) >= 2
           /\ route_maps.v[1] =
                  [methods |-> {"POST", "PUT", "PATCH", "DELETE"},
                   pattern |-> PyStr(<<".", "*">>), mcp_type |-> "EXCLUDE"]
           /\ route_maps.v[Len(route_maps.v)] =
                  [methods |-> AnyMethod, pattern |-> PyStr(<<".", "*">>),
                   mcp_type |-> "EXCLUDE"]

\* C3 witness: a list built from two different patterns, whose order shows,
\* and one built from the same pattern twice, which keeps both rules.
C3_Witness ==
    /\ Filtered
    /\ ResolvesToAllowList
    /\ Len(route_maps.v) = 4
    /\ \/ AllowList = <<PyStr(SearchPattern), PyStr(IssuePattern)>>
       \/ AllowList = <<PyStr(IssuePattern), PyStr(IssuePattern)>>

\* The path fully matches one of the configured allow patterns.
MatchesAllowPattern(path) ==
    \E i \in 1..Len(AllowList) : FullMatch(AllowList[i].v, path)

\* C4 -- Allow-list precision and default deny: under a filtered policy a
\* GET operation is EXPOSE exactly when its path fully matches one of the
\* configured allow patterns, and EXCLUDE otherwise; the host registers
\* exactly the matching GET operations.
C4_AllowListPrecision ==
    Filtered =>
        /\ \A p \in Paths :
               /\ evaluate(route_maps, "GET", p) = "EXPOSE" <=> MatchesAllowPattern(p)
               /\ evaluate(route_maps, "GET", p) = "EXCLUDE" <=> ~MatchesAllowPattern(p)
        /\ pc = "initialized" =>
               \A p \in Paths : Op("GET", p) \in mcp_server.tools <=> MatchesAllowPattern(p)

\* C4 witness: the issue pattern alone exposes GET on an issue, not GET on
\* its comments and not GET on the admin settings.
C4_Witness ==
    /\ Filtered /\ pc = "initialized"
    /\ ResolvesToAllowList
    /\ AllowList = <<PyStr(IssuePattern)>>
    /\ Op("GET", IssueABC123) \in mcp_server.tools
    /\ Op("GET", IssueComment) \notin mcp_server.tools
    /\ Op("GET", AdminPath) \notin mcp_server.tools

\* C5 -- Read-only exposure: under a filtered policy every operation
\* classified EXPOSE has method GET, so any other method (destructive, HEAD,
\* OPTIONS or unknown) on a path an allow pattern matches is EXCLUDE; under
\* the Unfiltered policy non-GET operations are exposed.
C5_ReadOnlyExposure ==
    /\ Filtered =>
           /\ \A m \in Methods, p \in Paths :
                  evaluate(route_maps, m, p) = "EXPOSE" => m = "GET"
           /\ pc = "initialized" => \A op \in mcp_server.tools : op.method = "GET"
    /\ Filtered =>
           \A m \in Methods \ {"GET"}, p \in Paths :
               MatchesAllowPattern(p) => evaluate(route_maps, m, p) = "EXCLUDE"
    /\ (Built /\ route_maps = PyNone) =>
           \A m \in Methods \ {"GET"}, p \in Paths : evaluate(route_maps, m, p) = "EXPOSE"

\* C5 witness: a HEAD operation on a path the allow-list matches is left
\* out while the GET on the same path is registered.
C5_Witness ==
    /\ Filtered /\ pc = "initialized"
    /\ ResolvesToAllowList
    /\ MatchesAllowPattern(SearchPath)
    /\ Op("GET", SearchPath) \in mcp_server.tools
    /\ Op("HEAD", SearchPath) \notin mcp_server.tools

ReadOnlyPlusScenario ==
    /\ config.mcp.route_config_name = "read-only-plus"
    /\ ResolvesToAllowList
    /\ AllowList = <<PyStr(IssuePattern), PyStr(SearchPattern)>>

\* C7 -- End-to-end scenario: with "read-only-plus" resolving to the issue
\* and search routes, the policy is built, and GET /rest/api/3/issue/ABC-1
\* is EXPOSE, POST /rest/api/3/issue/ABC-1 EXCLUDE, GET /rest/api/3/search
\* EXPOSE, GET /rest/api/3/project/10 EXCLUDE, DELETE /rest/api/3/search
\* EXCLUDE.
C7_EndToEndScenario ==
    (FiltersCalled /\ ReadOnlyPlusScenario) =>
        /\ Built
        /\ evaluate(route_maps, "GET", IssueABC1) = "EXPOSE"
        /\ evaluate(route_maps, "POST", IssueABC1) = "EXCLUDE"
        /\ evaluate(route_maps, "GET", SearchPath) = "EXPOSE"
        /\ evaluate(route_maps, "GET", ProjectPath) = "EXCLUDE"
        /\ evaluate(route_maps, "DELETE", SearchPath) = "EXCLUDE"

\* C7 witness: the scenario has run to the end and the host holds exactly
\* the three GET operations on the issue and search paths.
C7_Witness ==
    /\ pc = "initialized"
    /\ ReadOnlyPlusScenario
    /\ mcp_server.tools =
           {Op("GET", IssueABC1), Op("GET", IssueABC123), Op("GET", SearchPath)}

\* The requested configuration name is absent from the catalog.
UnknownName ==
    /\ config.mcp.route_config_path # ""
    /\ config.mcp.route_config_name # ""
    /\ HasCatalog
    /\ config.mcp.route_config_name \notin DOMAIN Catalog

CompletePolicy(policy) ==
    \/ policy = PyNone
    \/ /\ policy.t = "list"
       /\ Len(policy.v) >= 2
       /\ policy.v[1] =
              [methods |-> {"POST", "PUT", "PATCH", "DELETE"},
               pattern |-> PyStr(<<".", "*">>), mcp_type |-> "EXCLUDE"]
       /\ policy.v[Len(policy.v)] =
              [methods |-> AnyMethod, pattern |-> PyStr(<<".", "*">>),
               mcp_type |-> "EXCLUDE"]

\* The file cannot be read or parsed, holds no `configurations` section, or
\* its catalog lacks the requested name.
ConfigurationUnusable ==
    /\ config.mcp.route_config_path # ""
    /\ config.mcp.route_config_name # ""
    /\ \/ route_config_file.kind \in {"missing", "invalid_yaml"}
       \/ /\ route_config_file.kind = "yaml"
          /\ \/ route_config_file.data.t # "dict"
             \/ "configurations" \notin DOMAIN route_config_file.data.v
       \/ UnknownName

\* C9 -- All-or-nothing construction: every call of _get_route_filters
\* either returns a complete policy or raises a configuration error and
\* returns no policy at all; a missing `configurations` section, an unknown
\* name and an unreadable or unparsable file make it raise, never return a
\* shorter or fallback rule list.
C9_AllOrNothing ==
    /\ FiltersCalled =>
           \/ raised = NoError /\ pc # "failed" /\ CompletePolicy(route_maps)
           \/ /\ raised.type = "ValueError"
              /\ pc = "failed"
              /\ route_maps = Unset
              /\ mcp_server = PyNone
    /\ (FiltersCalled /\ ConfigurationUnusable) =>
           raised.type = "ValueError" /\ route_maps = Unset

\* C9 witness: the configuration file is missing and the call has raised.
C9_Witness ==
    /\ FiltersCalled
    /\ ConfigurationUnusable
    /\ route_config_file.kind = "missing"
    /\ raised.type = "ValueError"
    /\ route_maps = Unset

\* C10 -- Loud opt-out: whenever policy construction returns the Unfiltered
\* value it has emitted a warning-level record, and when the Unfiltered
\* value is handed to FastMCP.from_openapi a warning-level record is already
\* in the log; no tools are registered with route_maps = None unwarned.
C10_LoudOptOut ==
    [][/\ (route_maps # PyNone /\ route_maps' = PyNone) => HasWarning(log')
       /\ (mcp_server = PyNone /\ mcp_server' # PyNone /\ mcp_server'.route_maps = PyNone)
              => HasWarning(log)]_vars

\* C10 witness: the server was built from the Unfiltered value, and the
\* first warning stands in the log before the last record.
C10_Witness ==
    /\ pc = "initialized"
    /\ mcp_server # PyNone
    /\ mcp_server.route_maps = PyNone
    /\ \E i \in 1..(Len(log) - 1) : log[i].level = "WARNING"


\* The resolved allow-list holds an entry that is no regular expression.
HoldsUncompilable == \E i \in 1..Len(AllowList) : ~Compiles(AllowList[i])

\* C11 -- No evaluation-time errors: a configuration whose allow-list holds a
\* pattern that is not a valid regular expression makes _get_route_filters
\* fail instead of returning a policy, and under every rule list that
\* _get_route_filters returns every operation evaluates to a decision,
\* never to an error.
C11_NoEvaluationTimeErrors ==
    /\ (FiltersCalled /\ ResolvesToAllowList /\ HoldsUncompilable) =>
           ~Built /\ raised # NoError
    /\ Filtered =>
           \A op \in Operations :
               evaluate(route_maps, op.method, op.path) \in {"EXPOSE", "EXCLUDE"}

\* The resolved `routes` value is not a list of pattern strings: a bare
\* non-empty string, or a list holding an entry that is no string.
MalformedPatternList ==
    \/ ResolvedRoutes.t = "str" /\ Len(ResolvedRoutes.v) >= 1
    \/ /\ ResolvedRoutes.t = "list"
       /\ \E i \in 1..Len(ResolvedRoutes.v) : ResolvedRoutes.v[i].t # "str"

\* C12 -- Structurally invalid configuration is rejected: when the named
\* configuration is present but its `routes` value is a non-empty scalar
\* string or a list with non-string entries, _get_route_filters raises a
\* configuration error and returns no policy.
C12_MalformedPatternListRejected ==
    (FiltersCalled /\ Resolves /\ MalformedPatternList) =>
        /\ ~Built
        /\ raised # NoError /\ raised.type = "ValueError"
        /\ route_maps = Unset

\* No configuration name is set and the file has the flat shape
\* { routes: [p1, ...] } with a non-empty list of patterns.
FlatShape ==
    /\ config.mcp.route_config_path # ""
    /\ config.mcp.route_config_name = ""
    /\ route_config_file.kind = "yaml"
    /\ route_config_file.data.t = "dict"
    /\ DOMAIN route_config_file.data.v = {"routes"}
    /\ route_config_file.data.v["routes"].t = "list"
    /\ Len(route_config_file.data.v["routes"].v) >= 1

FlatRoutes == route_config_file.data.v["routes"]

\* C13 -- Legacy flat shape: with no configuration name and a file of the
\* flat shape { routes: [p1, ...] }, _get_route_filters succeeds and returns
\* what a named configuration with the same routes yields: None when the
\* sentinel is listed, otherwise the veto, one GET rule per pattern in
\* order, and the default deny.
C13_LegacyFlatShape ==
    (FiltersCalled /\ FlatShape) =>
        /\ Built
        /\ raised = NoError
        /\ route_maps = IF ContainsSentinel(FlatRoutes.v) THEN PyNone
                        ELSE PyList(Filters(FlatRoutes))

\* This step is a call of run().
RunCalled == calls'.run = calls.run + 1

NotInitializedError ==
    Exception("RuntimeError",
        Msg("Server not initialized. Call initialize() first.", "", "", {}, 0))

\* C18 -- run() requires initialization: a server is created with
\* mcp_server = None; every call of run() made while no initialize() has
\* completed raises RuntimeError("Server not initialized. Call initialize()
\* first.") and starts no transport; and mcp_server changes only in the last
\* step of a successful initialize(), from None to the built server.
C18_RunRequiresInitialization ==
    /\ [](pc # "initialized" => mcp_server = PyNone)
    /\ [][(RunCalled /\ pc # "initialized") =>
              run_raised' = NotInitializedError /\ started' = started]_vars
    /\ [][mcp_server' # mcp_server =>
              /\ pc = "filtering_logged" /\ pc' = "initialized"
              /\ mcp_server = PyNone /\ mcp_server' # PyNone]_vars

\* C18 witness: run() was called after a failed initialize() and raised the
\* RuntimeError without starting a transport.
C18_Witness ==
    /\ pc = "failed"
    /\ calls.run >= 1
    /\ run_raised = NotInitializedError
    /\ started = <<>>

\* C19 -- Transport dispatch: a call of run() on an initialized server
\* starts exactly one transport chosen by config.mcp.transport -- "stdio"
\* runs stdio with no port, "http" runs streamable-http on config.mcp.port,
\* "sse" runs sse on config.mcp.port -- and for any other value raises
\* ValueError("Unsupported transport: <value>") and starts nothing.
C19_TransportDispatch ==
    [][(RunCalled /\ pc = "initialized") =>
          LET transport == config.mcp.transport
              port == config.mcp.port
          IN  CASE transport = "stdio" ->
                       /\ started' = Append(started, [transport |-> "stdio"])
                       /\ run_raised' = NoError
                [] transport = "http" ->
                       /\ started' = Append(started, [transport |-> "streamable-http",
                                                      port |-> port])
                       /\ run_raised' = NoError
                [] transport = "sse" ->
                       /\ started' = Append(started, [transport |-> "sse", port |-> port])
                       /\ run_raised' = NoError
                [] OTHER ->
                       /\ started' = started
                       /\ run_raised'.type = "ValueError"
                       /\ run_raised'.msg.text = "Unsupported transport: {transport}"
                       /\ Mentions(run_raised'.msg, transport)]_vars

\* C19 witness: an initialized server configured for http on a port other
\* than the default has started streamable-http on that port, once.
C19_Witness ==
    /\ pc = "initialized"
    /\ config.mcp.transport = "http"
    /\ started = <<[transport |-> "streamable-http", port |-> DefaultPort + 1]>>
    /\ run_raised = NoError

\* The server is driven by main().
OnMainPath ==
    main_pc \in {"start", "configured", "initializing", "serving", "returned", "crashed"}

\* initialize() was left by an exception of _get_route_filters.
ConstructionFailed == pc = "failed" /\ calls.filters = 1

\* C16 -- Refuse to start on configuration failure: under main(), once
\* policy construction inside initialize() has failed, run() is never
\* called, no transport is started, no server object holds tools, and the
\* very next step of main() ends it (by return or by the exception leaving
\* main); a transport is only ever started over a policy that was built.
C16_RefuseToStart ==
    /\ []((OnMainPath /\ ConstructionFailed) =>
              /\ calls.run = 0
              /\ started = <<>>
              /\ mcp_server = PyNone
              /\ main_pc \in {"initializing", "returned", "crashed"})
    /\ [][(OnMainPath /\ ConstructionFailed /\ main_pc = "initializing") =>
              main_pc' \in {"returned", "crashed"}]_vars
    /\ [](started # <<>> => Built /\ pc = "initialized")

\* C16 witness: main() has ended on an exception of _get_route_filters, with
\* run() never called.
C16_Witness ==
    /\ OnMainPath
    /\ ConstructionFailed
    /\ main_pc \in {"returned", "crashed"}
    /\ calls.run = 0

\* The three credentials are usable.
CredentialsSet ==
    \A name \in {"JIRA_BASE_URL", "JIRA_API_USER", "JIRA_API_TOKEN"} :
        ~Missing(env, name) /\ ~FieldEmpty(env[name])

\* main() is given everything a startup needs: credentials, a port that
\* parses, a supported transport, a readable OpenAPI document, and route
\* settings that name an entry of an existing catalog.
CompleteStartup ==
    /\ OnMainPath
    /\ CredentialsSet
    /\ IsDigits(getenv(env, "MCP_PORT", <<"8", "0", "0", "0">>))
    /\ \/ argv.transport # <<>>
       \/ getenv(env, "MCP_TRANSPORT", "stdio") \in {"stdio", "http", "sse"}
    /\ openapi_spec_file = "ok"
    /\ route_config_file = GoodRouteConfigFile
    /\ env["MCP_ROUTE_CONFIG_PATH"] = "./route-configs.yaml"
    /\ env["MCP_ROUTE_CONFIG_NAME"] = "read-only-plus"

\* C17 -- Policy built exactly once, before serving: _get_route_filters is
\* never entered a second time; when a transport is started the policy has
\* been built exactly once and is the one the host was given; a built
\* policy is never changed; and a main() given a complete startup gets past
\* initialize() with the policy built once and goes on to start the
\* transport.
C17_PolicyBuiltOnceBeforeServing ==
    /\ [](calls.filters <= 1)
    /\ [](started # <<>> =>
              calls.filters = 1 /\ Built /\ mcp_server.route_maps = route_maps)
    /\ [][Built => route_maps' = route_maps]_vars
    /\ []((CompleteStartup /\ main_pc \in {"serving", "returned", "crashed"}) =>
              main_pc = "serving" /\ Built /\ calls.filters = 1)

\* The first of the required variables that is unset or empty.
FirstMissing ==
    IF Missing(env, "JIRA_BASE_URL") THEN "JIRA_BASE_URL"
    ELSE IF Missing(env, "JIRA_API_USER") THEN "JIRA_API_USER"
    ELSE "JIRA_API_TOKEN"

AnyCredentialMissing ==
    \E name \in {"JIRA_BASE_URL", "JIRA_API_USER", "JIRA_API_TOKEN"} : Missing(env, name)

\* C20 -- Missing credentials stop startup: when JIRA_BASE_URL,
\* JIRA_API_USER or JIRA_API_TOKEN is unset or empty, from_env raises a
\* ValueError naming the first such variable in that order, and main()
\* writes "Configuration error: ..." with that name to stderr and returns
\* with no server constructed, initialized or run.
C20_MissingCredentialsStopStartup ==
    (OnMainPath /\ AnyCredentialMissing) =>
        /\ from_env(env).raised.type = "ValueError"
        /\ from_env(env).raised.msg.text = "{name} environment variable is required"
        /\ from_env(env).raised.msg.name = FirstMissing
        /\ main_pc \in {"start", "returned"}
        /\ main_pc = "returned" =>
               /\ stderr[1].text = "Configuration error: {e}"
               /\ Mentions(stderr[1].e, FirstMissing)
        /\ main_pc = "start" => stderr = <<>>
        /\ pc = "none" /\ config = Unset /\ mcp_server = Unset
        /\ calls = [filters |-> 0, run |-> 0, initialize |-> 0] /\ started = <<>>

\* C20 witness: with the URL set and both the user and the token missing,
\* main() has returned after naming JIRA_API_USER on stderr.
C20_Witness ==
    /\ OnMainPath
    /\ main_pc = "returned"
    /\ ~Missing(env, "JIRA_BASE_URL")
    /\ Missing(env, "JIRA_API_USER")
    /\ Missing(env, "JIRA_API_TOKEN")
    /\ Len(stderr) = 5
    /\ stderr[1].e.name = "JIRA_API_USER"

\* v is empty or holds whitespace only.
Blank(v) == \A i \in 1..Len(v) : v[i] \in Whitespace

\* v without the whitespace before its first and after its last character
\* that is no whitespace.
Trimmed(v) ==
    LET solid == {i \in 1..Len(v) : v[i] \notin Whitespace}
    IN  SubSeq(v, CHOOSE i \in solid : \A j \in solid : i <= j,
                  CHOOSE i \in solid : \A j \in solid : j <= i)

\* C21 -- Credential field validation: JiraConfig / JiraSettings built with
\* an empty or whitespace-only base_url, user or api_token is rejected with
\* "Field cannot be empty"; otherwise each stored value is the argument
\* without its leading and trailing whitespace, hence non-empty, with no
\* whitespace at either end, and accepted unchanged by the validator.
C21_CredentialFieldValidation ==
    jira # Unset =>
        /\ (\E f \in Fields : Blank(kwargs[f])) <=> jira.raised # NoError
        /\ jira.raised # NoError =>
               /\ jira.raised.msg.text = "Field cannot be empty"
               /\ jira.raised.msg.available = {f \in Fields : Blank(kwargs[f])}
        /\ jira.raised = NoError =>
               \A f \in Fields :
                   /\ jira[f] = Trimmed(kwargs[f])
                   /\ jira[f] # <<>>
                   /\ jira[f][1] \notin Whitespace
                   /\ jira[f][Len(jira[f])] \notin Whitespace
                   /\ validate_not_empty(jira[f]) = [raised |-> NoError, ret |-> jira[f]]

\* C21 witness: JiraSettings built from a base_url with a blank before and a
\* tab after it stores the base_url stripped, next to the other two fields.
C21_Witness ==
    /\ jira # Unset
    /\ jira.cls = "JiraSettings"
    /\ jira.raised = NoError
    /\ kwargs.base_url = <<" ", "x", "\t">>
    /\ jira.base_url = <<"x">>
    /\ jira.user = <<"x">>
    /\ jira.api_token = <<"x">>

-----------------------------------------------------------------------------
(* Order of the allow rules, redundancy of the veto, and the exact         *)
(* comparison that detects the all-operations pattern.                     *)

\* The allow-list rearranged by the permutation f of its positions.
Permuted(list, f) == [i \in 1..Len(list) |-> list[f[i]]]

\* The policy classifies every operation as the rule list `rules` does.
SameClassification(policy, rules) ==
    \A o \in Operations :
        evaluate(policy, o.method, o.path) = evaluate(PyList(rules), o.method, o.path)

\* C22: for an allow-list without the all-operations pattern, the policy
\* built from any permutation of the list classifies every (method, path)
\* exactly as the policy built from the list itself, also when the patterns
\* overlap or repeat.
C22_AllowRuleOrderIrrelevant ==
    Filtered =>
        \A f \in Permutations(1..Len(AllowList)) :
            SameClassification(route_maps, Filters(PyList(Permuted(AllowList, f))))

C22_Witness ==
    /\ pc = "initialized"
    /\ Filtered
    /\ AllowList = <<PyStr(IssueTreePattern), PyStr(IssuePattern)>>
    /\ Filters(PyList(<<PyStr(IssuePattern), PyStr(IssueTreePattern)>>)) # route_maps.v
    /\ evaluate(route_maps, "GET", IssueABC1) = "EXPOSE"
    /\ evaluate(route_maps, "GET", IssueComment) = "EXPOSE"

\* C23: the rule list without its first rule, the destructive veto,
\* classifies every (method, path) exactly as the full rule list: the allow
\* rules match GET only and the last rule excludes everything else.
C23_VetoRedundantForClassification ==
    Filtered =>
        /\ Head(route_maps.v) = DestructiveFilter
        /\ SameClassification(route_maps, Tail(route_maps.v))

C23_Witness ==
    /\ pc = "initialized"
    /\ Filtered
    /\ AllowList = <<PyStr(AnyPath)>>
    /\ evaluate(PyList(Tail(route_maps.v)), "DELETE", IssueABC1) = "EXCLUDE"
    /\ evaluate(PyList(Tail(route_maps.v)), "GET", IssueABC1) = "EXPOSE"

\* C24: the policy is the Unfiltered value exactly when an entry of the
\* allow-list is the string ^/rest/api/.* itself; a list holding only other
\* patterns that match as much or more (.*, ^/rest/.*, ^/rest/api/.*$)
\* yields a rule list under which every destructive operation is excluded
\* and only GET operations are exposed.
C24_SentinelIsExactString ==
    Built =>
        /\ route_maps = PyNone <=> ContainsSentinel(AllowList)
        /\ Filtered =>
               \A o \in Operations :
                   /\ o.method \in DestructiveMethods =>
                          evaluate(route_maps, o.method, o.path) = "EXCLUDE"
                   /\ evaluate(route_maps, o.method, o.path) = "EXPOSE" => o.method = "GET"

C24_Witness ==
    /\ pc = "initialized"
    /\ Filtered
    /\ AllowList = <<PyStr(AllOperationsAnchoredPattern), PyStr(RestPattern)>>
    /\ \A p \in Paths : FullMatch(AllOperationsAnchoredPattern, p)
    /\ \A p \in Paths : evaluate(route_maps, "GET", p) = "EXPOSE"
    /\ \A p \in Paths : evaluate(route_maps, "POST", p) = "EXCLUDE"

-----------------------------------------------------------------------------
(* Empty allow-lists and collapsed loading failures.                       *)

\* The named configuration exists and its `routes` key is missing or holds
\* an empty list.
EmptyAllowList ==
    /\ config.mcp.route_config_path # ""
    /\ config.mcp.route_config_name # ""
    /\ HasCatalog
    /\ config.mcp.route_config_name \in DOMAIN Catalog
    /\ Catalog[config.mcp.route_config_name].t = "dict"
    /\ \/ "routes" \notin DOMAIN Catalog[config.mcp.route_config_name].v
       \/ Catalog[config.mcp.route_config_name].v["routes"] = PyList(<<>>)

\* C25: when the named configuration exists but its `routes` key is missing
\* or is an empty list, construction fails with a ValueError and no policy
\* is returned; every rule list that is returned has at least three rules,
\* so at least one allow rule.
C25_EmptyAllowListFails ==
    /\ (FiltersCalled /\ EmptyAllowList) =>
           /\ pc = "failed"
           /\ raised.type = "ValueError"
           /\ route_maps = Unset
    /\ Filtered =>
           /\ Len(route_maps.v) >= 3
           /\ route_maps.v[2].mcp_type = "TOOL"

\* C25 witness: the requested configuration is in the catalog without a
\* `routes` key, and construction has failed.
C25_Witness ==
    /\ pc = "failed"
    /\ FiltersCalled
    /\ EmptyAllowList
    /\ "routes" \notin DOMAIN Catalog[config.mcp.route_config_name].v
    /\ raised.type = "ValueError"

RequiredMessage ==
    Msg("Route configuration is required. Set MCP_ROUTE_CONFIG_PATH and MCP_ROUTE_CONFIG_NAME environment variables.",
        "", "", {}, 0)

\* The route configuration cannot be loaded: the file is missing or is no
\* YAML, the document is no mapping or has no `configurations` section, or
\* the requested name is not in the catalog.
LoadingFails ==
    /\ config.mcp.route_config_path # ""
    /\ config.mcp.route_config_name # ""
    /\ \/ route_config_file.kind = "missing"
       \/ route_config_file.kind = "invalid_yaml"
       \/ route_config_file.kind = "yaml" /\ route_config_file.data.t # "dict"
       \/ /\ route_config_file.kind = "yaml"
          /\ route_config_file.data.t = "dict"
          /\ "configurations" \notin DOMAIN route_config_file.data.v
       \/ UnknownName

\* C28: _load_route_config answers every loading failure (missing file,
\* YAML parse error, non-mapping document, missing `configurations`
\* section, unknown name) with an error log record and the value [], and
\* _get_safe_endpoints reports each of them with the same ValueError,
\* "Failed to load configuration '<name>' from <path>"; the "Route
\* configuration is required" error is raised exactly when the path or the
\* name setting is empty.
C28_LoadingFailuresCollapsed ==
    FiltersCalled =>
        /\ LoadingFails =>
               /\ _load_route_config.ret = PyList(<<>>)
               /\ Len(_load_route_config.log) = 1
               /\ _load_route_config.log[1].level = "ERROR"
               /\ \E i \in 1..Len(log) : log[i] = _load_route_config.log[1]
               /\ pc = "failed"
               /\ raised = Exception("ValueError",
                               Msg("Failed to load configuration '{name}' from {path}",
                                   config.mcp.route_config_name,
                                   config.mcp.route_config_path, {}, 0))
        /\ (raised # NoError /\ raised.msg = RequiredMessage)
               <=> (config.mcp.route_config_path = "" \/ config.mcp.route_config_name = "")

\* C28 witness: the document is no mapping, and construction has failed
\* with the collapsed message.
C28_Witness ==
    /\ pc = "failed"
    /\ FiltersCalled
    /\ LoadingFails
    /\ route_config_file.kind = "yaml"
    /\ route_config_file.data.t # "dict"
    /\ raised.type = "ValueError"
    /\ raised.msg.text = "Failed to load configuration '{name}' from {path}"

-----------------------------------------------------------------------------
(* A failed initialize() and the server object.                            *)

\* C26: a call of initialize() that raises, whether the OpenAPI document is
\* missing or not JSON or the route configuration cannot be loaded, leaves
\* mcp_server as it was before the call: None on a first attempt, the
\* server built earlier on a repeated attempt.  mcp_server is assigned only
\* in the last step of a call whose every step succeeded, and run() on a
\* server that was never initialized raises RuntimeError and starts
\* nothing.
C26_FailedInitializeKeepsServer ==
    /\ [][pc' = "failed" => mcp_server' = mcp_server]_vars
    /\ [][mcp_server' # mcp_server =>
              /\ pc = "filtering_logged" /\ pc' = "initialized"
              /\ raised' = NoError
              /\ mcp_server'.route_maps = route_maps]_vars
    /\ []((pc # "initialized" /\ calls.initialize = 0) => mcp_server = PyNone)
    /\ [][(RunCalled /\ mcp_server = PyNone) =>
              run_raised' = NotInitializedError /\ started' = started]_vars

\* C26 witness: the second call of initialize() found no route
\* configuration file and raised, and the server object is still the one
\* built by the first call from the issue pattern.
C26_Witness ==
    /\ pc = "failed"
    /\ calls.initialize = 1
    /\ raised.type = "ValueError"
    /\ route_config_file.kind = "missing"
    /\ mcp_server # PyNone
    /\ mcp_server.route_maps = PyList(Filters(PyList(<<PyStr(IssuePattern)>>)))

-----------------------------------------------------------------------------
(* The security-filtering flag.                                            *)

\* What MCP_ENABLE_SECURITY_FILTERING stands for: on unless it is set to a
\* value other than true, 1 or yes in any letter case.
FlagSetting(e) ==
    "MCP_ENABLE_SECURITY_FILTERING" \in DOMAIN e =>
        e["MCP_ENABLE_SECURITY_FILTERING"]
            \in {"true", "True", "TRUE", "1", "yes", "Yes", "YES"}

\* The policy as a function of the route configuration alone.
PolicyOfAllowList ==
    IF ContainsSentinel(AllowList) THEN PyNone
    ELSE PyList(<<DestructiveFilter>>
                    \o [i \in 1..Len(AllowList) |-> RouteMap({"GET"}, AllowList[i], "TOOL")]
                    \o <<DefaultDenyFilter>>)

\* C27: MCP_ENABLE_SECURITY_FILTERING is parsed as true exactly when its
\* lower-cased value is true, 1 or yes (true when unset), and its value
\* changes nothing in the policy: whatever the flag is, the policy returned
\* is the one the resolved allow-list determines, a call that returns no
\* policy leaves none behind, and the Unfiltered value is returned only for
\* an allow-list that holds the all-operations pattern.
C27_FlagCannotDisableFiltering ==
    /\ (config # Unset /\ "enable_security_filtering" \in DOMAIN config.mcp) =>
           config.mcp.enable_security_filtering = FlagSetting(env)
    /\ Built => route_maps = PolicyOfAllowList
    /\ (calls.filters >= 1 /\ ~Built) => route_maps = Unset /\ raised # NoError
    /\ route_maps = PyNone => ResolvesToAllowList /\ ContainsSentinel(AllowList)

\* C27 witness: the environment sets the flag to false, the server built
\* from it is initialized and serving, and its policy is the rule list of
\* the read-only-plus allow-list with no POST operation exposed.
C27_Witness ==
    /\ main_pc = "start() serving"
    /\ "MCP_ENABLE_SECURITY_FILTERING" \in DOMAIN env
    /\ env["MCP_ENABLE_SECURITY_FILTERING"] = "false"
    /\ pc = "initialized"
    /\ Filtered
    /\ Len(route_maps.v) = 4
    /\ \A op \in mcp_server.tools : op.method = "GET"

-----------------------------------------------------------------------------
(* The handlers of the "jira_mcp" logger.                                  *)

\* How often record n was written to the two streams together.
EmissionsIn(err, out, n) ==
    Cardinality({i \in 1..Len(err) : err[i].n = n})
        + Cardinality({i \in 1..Len(out) : out[i].n = n})

Emissions(n) == EmissionsIn(stderr, stdout, n)

\* C29: after any sequence of setup_logging calls the "jira_mcp" logger has
\* exactly one handler, which writes to stderr if the transport of the last
\* call was stdio and to stdout otherwise; no record is written more than
\* once, a record logged after a call is written exactly once to the stream
\* of that call, and nothing is written to stdout while the last transport
\* is stdio.
C29_LoggerHandlerInvariant ==
    /\ [](logging_transport # "" =>
              /\ Len(handlers) = 1
              /\ handlers[1] = IF logging_transport = "stdio" THEN "stderr" ELSE "stdout")
    /\ [](\A n \in 1..Len(log) : Emissions(n) <= 1)
    /\ [][(Len(log') = Len(log) + 1 /\ logging_transport # "") =>
              /\ EmissionsIn(stderr', stdout', Len(log')) = 1
              /\ IF logging_transport = "stdio"
                 THEN stdout' = stdout /\ Len(stderr') = Len(stderr) + 1
                 ELSE stderr' = stderr /\ Len(stdout') = Len(stdout) + 1]_vars
    /\ [][logging_transport = "stdio" => stdout' = stdout]_vars

\* C29 witness: setup_logging was called for http and then for stdio; the
\* record logged in between is on stdout, the record logged afterwards on
\* stderr, and the logger holds the stderr handler alone.
C29_Witness ==
    /\ logging_transport = "stdio"
    /\ handlers = <<"stderr">>
    /\ Len(log) = 2
    /\ stdout = <<[n |-> 1]>>
    /\ stderr = <<[n |-> 2]>>

=============================================================================
